---- MODULE Spec2Model ----
(***************************************************************************)
(* Model of bilibili-live-ws (src/src/index.js): the protocol Session      *)
(* (Live / LiveWS / LiveTCP), the TCP framer (LiveTCP.splitBuffer) and the *)
(* reconnect Supervisor (KeepLiveWS / KeepLiveTCP).                        *)
(*                                                                         *)
(* Node runs every callback to completion, so every action below is one    *)
(* callback (an I/O signal, a timer expiry, a decode completion or a call  *)
(* of the caller) with all the synchronous calls and emits it makes.       *)
(* Time is in milliseconds; a timer is <<>> (not pending) or <<r>> with r  *)
(* the time left before it fires.  The timers set by one setTimeout call   *)
(* site share one delay, so those pending are kept oldest first, and the   *)
(* handle the code keeps (the last one set) is the last of them.           *)
(***************************************************************************)
EXTENDS Integers, Sequences, FiniteSets, TLC

VARIABLES
  Base,      \* "LiveWS" or "LiveTCP": the class the objects are built from
  conn,      \* the Sessions created so far, in creation order (a sequence of records)
  sup,       \* the Supervisor object (sup.on = FALSE: a bare Session, no Supervisor)
  ktimeout,  \* per connect() call, its closure variable `timeout` (the LivenessTimer)
  retry,     \* per Session, the retry timers its close handler scheduled, oldest first
  idle,      \* per Session, time since it was created or last emitted `heartbeat`
  promise,   \* the results returned by getOnline(), in call order
  crashed,   \* an exception left a callback, or a constructor, uncaught
  out,       \* what the last callback did: the events emitted, the send() and close() calls
  stream,    \* framer: the bytes the peer still has to deliver
  buffer,    \* framer: LiveTCP's this.buffer
  frames,    \* framer: the raw messages emitted so far
  spinning,  \* framer: a splitBuffer call never returns (or went past MaxIter iterations)
  input      \* framer: the frames the peer wrote (the whole stream, for reference)

vars == <<Base, conn, sup, ktimeout, retry, idle, promise, crashed, out,
          stream, buffer, frames, spinning, input>>

sessionVars == <<Base, conn, sup, ktimeout, retry, idle, promise, crashed, out>>
framerVars == <<stream, buffer, frames, spinning, input>>

----------------------------------------------------------------------------
(* Bounds of the model *)

MaxSessions == 3    \* Sessions one Supervisor creates
MaxMsgs == 2        \* raw messages received
MaxCalls == 2       \* getOnline() calls on a bare Session
MaxKCalls == 1      \* getOnline() calls on a Supervisor
MaxFrames == 2      \* frames in a TCP stream
MaxBody == 2        \* body bytes of a TCP frame
MaxIter == 6        \* iterations of splitBuffer's loop followed in one call
MaxRaw == 5         \* bytes of a TCP stream of any content

(* Program constants *)

HeartbeatIdle == 30000     \* 1000 * 30
RetryInterval == 100       \* this.interval
LivenessTimeout == 45000   \* this.timeout = 45 * 1000
HeaderLen == 4             \* buffer.length >= 4, readInt32BE(0)

(* A JavaScript value given as a room id: its typeof, and for a number its   *)
(* value as the fraction num/den in lowest terms: den = 1 for an integer,   *)
(* 1/0 for Infinity, 0/0 for NaN.                                           *)
Number(num, den) == [type |-> "number", num |-> num, den |-> den]
NaN == Number(0, 0)
Infinity == Number(1, 0)
NotANumber == {[type |-> "string", num |-> 0, den |-> 1],
               [type |-> "undefined", num |-> 0, den |-> 1]}

\* Number.isNaN
isNaN(v) == v.type = "number" /\ v.num = 0 /\ v.den = 0

RoomIds == {Number(1, 1), Number(2, 1)}
Counts == {1, 2}

----------------------------------------------------------------------------
(* Timers *)

NoTimer == <<>>
setTimeout(ms) == <<ms>>
Pending(t) == t # NoTimer
Expired(t) == t = <<0>>

\* timers of one delay, in the order they were set: the oldest is due first
Due(q) == q # <<>> /\ Head(q) = 0

\* clearTimeout(handle), handle being that of the last timer set: it is
\* cancelled if still pending, and the older ones are left alone
clearTimeout(q) == IF q = <<>> THEN q ELSE SubSeq(q, 1, Len(q) - 1)

Without(f, k) == [x \in DOMAIN f \ {k} |-> f[x]]

Min(S) == CHOOSE x \in S : \A y \in S : x <= y


----------------------------------------------------------------------------
(* The codec (./buffer): encoder and decoder.  A raw message is the        *)
(* sequence of its encoded packets; each encoded packet is a pair          *)
(* <<operation, body>>.                                                    *)

encoder(type, body) == <<type, body>>

PacketOf(raw) ==
  [type |-> raw[1], data |-> raw[2]]

decoder(buf) == [i \in 1..Len(buf) |-> PacketOf(buf[i])]

Welcome == encoder("welcome", <<>>)
HeartbeatReply(n) == encoder("heartbeat", n)
Message(data) == encoder("message", data)

(* A message payload: data.cmd and data.msg.cmd, each a string given as    *)
(* the sequence of its pieces; <<>> is the empty or missing string.        *)
Payload(cmd, msgcmd) == [cmd |-> cmd, msg |-> [cmd |-> msgcmd]]

DANMU_MSG == <<"DANMU_MSG">>

\* String.prototype.includes
includes(str, needle) ==
  \E i \in 0..(Len(str) - Len(needle)) :
     \A j \in 1..Len(needle) : str[i + j] = needle[j]

----------------------------------------------------------------------------
(* The objects.  W is the whole heap: the operators below are the methods  *)
(* and listeners of the source, each taking the heap to the heap it leaves.*)

\* Nothing emitted and nothing sent yet: every callback starts from here
Quiet == [emitted |-> <<>>, kemitted |-> <<>>, sent |-> <<>>, closed |-> <<>>]

World == [conn |-> conn, sup |-> sup, kt |-> ktimeout, retry |-> retry,
          idle |-> idle, promise |-> promise, crashed |-> crashed, out |-> Quiet]

\* the cause a transport reports with its error signal
Cause == "ECONNRESET"

\* An emitted event: the Session it is emitted on, its name, its arguments,
\* and the raw message (by arrival number) whose decode produced it, 0 if none.
Ev(s, name, args, src) == [from |-> s, name |-> name, args |-> args, src |-> src]

\* the object the constructor of Live, then of LiveWS / LiveTCP, builds: the
\* transport starts connecting
Live(roomid) ==
  [roomid |-> roomid, online |-> 0, live |-> FALSE, timeout |-> NoTimer,
   readyState |-> "connecting", received |-> 0, decoding |-> <<>>,
   dispatched |-> <<>>, once |-> {}]

\* Live constructor: the check of roomid that throws
Throws(roomid) == roomid.type # "number" \/ isNaN(roomid)

\* new Base(roomid): the constructor throws before super() and before the
\* transport is created, or returns the new Session
New(W, roomid) ==
  IF Throws(roomid) THEN [W EXCEPT !.crashed = TRUE]
  ELSE [W EXCEPT !.conn = Append(@, Live(roomid)),
                 !.kt = Append(@, NoTimer),
                 !.retry = Append(@, NoTimer),
                 !.idle = Append(@, 0)]

\* A call of this.send: the Session, the bytes, the state of the transport at
\* the call, and whether the bytes were handed to the transport
Sent(W, s, data, written) ==
  [from |-> s, data |-> data, state |-> W.conn[s].readyState, written |-> written]

\* this.send of LiveWS: dropped unless the socket is OPEN
sendWS(W, s, data) ==
  [W EXCEPT !.out.sent = Append(@, Sent(W, s, data, W.conn[s].readyState = "open"))]

\* this.send of LiveTCP: socket.write, whatever the state of the socket
sendTCP(W, s, data) ==
  [W EXCEPT !.out.sent = Append(@, Sent(W, s, data, TRUE))]

send(W, s, data) ==
  IF Base = "LiveWS" THEN sendWS(W, s, data) ELSE sendTCP(W, s, data)

\* LiveWS.close (ws.close()) / LiveTCP.close (socket.end()): the transport
\* starts closing ("aborting" when it had not opened yet); no effect on one
\* that is closing, has failed or is closed.  The call is noted with the
\* number of events the callback had emitted before it.
close(W, s) ==
  [W EXCEPT !.conn[s].readyState =
               CASE @ = "connecting" -> "aborting"
                 [] @ = "open" -> "closing"
                 [] OTHER -> @,
            !.out.closed = Append(@, [on |-> s, after |-> Len(W.out.emitted)])]

\* Live.heartbeat
heartbeat(W, s) == send(W, s, encoder("heartbeat", <<>>))

\* Live.getOnline: the returned promise is the last one of W.promise
getOnline(W, s) ==
  LET W1 == heartbeat(W, s)
      p  == Len(W.promise) + 1
  IN  [W1 EXCEPT !.promise = Append(@, [on |-> s, value |-> <<>>, resolved |-> 0]),
                 !.conn[s].once = @ \cup {p}]


----------------------------------------------------------------------------
(* Listeners, in the order they are registered on a Session: those of the  *)
(* Live constructor, those of the Supervisor's connect(), then the         *)
(* once-listeners of getOnline().                                          *)

\* Live constructor: this.on('open', ...)
LiveOnOpen(W, s) ==
  send(W, s, encoder("join", [uid |-> 0, roomid |-> W.conn[s].roomid,
                              protover |-> 2, platform |-> "web", type |-> 2]))

\* Live constructor: this.on('close', ...)
LiveOnClose(W, s) == [W EXCEPT !.conn[s].timeout = clearTimeout(@)]

\* Live constructor: this.on('message', ...) up to its await: the decode starts
LiveOnMessage(W, s, e) == [W EXCEPT !.conn[s].decoding = (e.src :> e.args[1]) @@ @]

\* EventEmitter.emit on the Supervisor: an 'error' without a listener is thrown
KEmit(W, e) ==
  IF e.name = <<"error">> /\ ~W.sup.errorListener
    THEN [W EXCEPT !.crashed = TRUE]
    ELSE [W EXCEPT !.out.kemitted = Append(@, e)]

\* connect: connection.on(relayEvent, (...params) => this.emit(...params))
KOnRelay(W, s, e) == KEmit(W, e)

\* connect: connection.on('error', e => this.emit('e', e))
KOnError(W, s, e) == KEmit(W, Ev(s, <<"e">>, e.args, e.src))

\* connect: connection.on('close', ...) scheduling the retry
KOnCloseRetry(W, s) ==
  IF ~W.sup.closed
    THEN [W EXCEPT !.retry[s] = @ \o setTimeout(RetryInterval)]
    ELSE W

\* connect: connection.on('heartbeat', ...) restarting the liveness timer
KOnHeartbeat(W, s) == [W EXCEPT !.kt[s] = setTimeout(LivenessTimeout)]

\* connect: connection.on('close', ...) clearing the liveness timer
KOnCloseClear(W, s) == [W EXCEPT !.kt[s] = NoTimer]

\* a mutant: this.on instead of this.once, the listeners are never removed
OnHeartbeatListener(W, s, e) ==
  [W EXCEPT !.promise = [p \in DOMAIN W.promise |->
               IF p \in W.conn[s].once
                 THEN [W.promise[p] EXCEPT
                         !.resolved = @ + 1,
                         !.value = IF @ = <<>> THEN <<e.args[1]>> ELSE @]
                 ELSE W.promise[p]]]

\* getOnline: this.once('heartbeat', resolve), for every pending call
OnceHeartbeat(W, s, e) ==
  [W EXCEPT !.conn[s].once = {},
            !.promise = [p \in DOMAIN W.promise |->
               IF p \in W.conn[s].once
                 THEN [W.promise[p] EXCEPT
                         !.resolved = @ + 1,
                         !.value = IF @ = <<>> THEN <<e.args[1]>> ELSE @]
                 ELSE W.promise[p]]]

\* The listeners a Session holds for event e, run in registration order
\* (all but those of '_error', which emits in turn).
Listeners(W, s, e) ==
  LET K == W.sup.on IN
  CASE e.name = <<"open">>  -> LiveOnOpen(W, s)
    [] e.name = <<"message">> -> LiveOnMessage(W, s, e)
    [] e.name = <<"close">> ->
         LET W1 == LiveOnClose(W, s)
         IN  IF K THEN KOnCloseClear(KOnCloseRetry(W1, s), s) ELSE W1
    [] e.name = <<"heartbeat">> ->
         LET W1 == IF W.conn[s].readyState = "closed" THEN W
                   ELSE [W EXCEPT !.idle[s] = 0]
         IN  OnceHeartbeat(IF K THEN KOnHeartbeat(W1, s) ELSE W1, s, e)
    [] e.name = <<"error">> ->
         IF K THEN KOnError(W, s, e)
         ELSE IF W.sup.errorListener THEN W
         ELSE [W EXCEPT !.crashed = TRUE]
    [] OTHER -> W

\* NiceEventEmitter.emit: super.emit(...params), then super.emit(relayEvent, ...params)
emit(W, s, e) ==
  LET W1 == Listeners([W EXCEPT !.out.emitted = Append(@, e)], s, e)
  IN  IF W1.crashed \/ ~W1.sup.on THEN W1 ELSE KOnRelay(W1, s, e)

\* a mutant: the handler emits 'error' and leaves the transport alone
LiveOnErrorNoClose(W, s, e) == emit(W, s, Ev(s, <<"error">>, e.args, 0))

\* Live constructor: this.on('_error', (...params) => ...)
LiveOnError(W, s, e) == emit(close(W, s), s, Ev(s, <<"error">>, e.args, 0))

\* this.emit('_error', cause) of the transport's error signal
emitError(W, s, cause) ==
  LET e  == Ev(s, <<"_error">>, <<cause>>, 0)
      W1 == LiveOnError([W EXCEPT !.out.emitted = Append(@, e)], s, e)
  IN  IF W1.crashed \/ ~W1.sup.on THEN W1 ELSE KOnRelay(W1, s, e)


----------------------------------------------------------------------------
(* Live constructor: the body of packs.forEach for one packet of raw       *)
(* message number src of Session s.                                        *)

OnWelcome(W, s, src) ==
  LET W1 == emit([W EXCEPT !.conn[s].live = TRUE], s, Ev(s, <<"live">>, <<>>, src))
  IN  IF W1.crashed THEN W1 ELSE send(W1, s, encoder("heartbeat", <<>>))

\* a mutant: the event is emitted before this.online is assigned
OnHeartbeatEmitFirst(W, s, data, src) ==
  LET W1 == emit([W EXCEPT !.conn[s].timeout =
                              clearTimeout(@) \o setTimeout(HeartbeatIdle)],
                 s, Ev(s, <<"heartbeat">>, <<W.conn[s].online>>, src))
  IN  [W1 EXCEPT !.conn[s].online = data]

\* a mutant: the pending timer is not cancelled before the next one is set
OnHeartbeatNoClear(W, s, data, src) ==
  LET W1 == [W EXCEPT !.conn[s].online = data,
                      !.conn[s].timeout = @ \o setTimeout(HeartbeatIdle)]
  IN  emit(W1, s, Ev(s, <<"heartbeat">>, <<W1.conn[s].online>>, src))

OnHeartbeat(W, s, data, src) ==
  LET W1 == [W EXCEPT !.conn[s].online = data,
                      !.conn[s].timeout =
                         clearTimeout(@) \o setTimeout(HeartbeatIdle)]
  IN  emit(W1, s, Ev(s, <<"heartbeat">>, <<W1.conn[s].online>>, src))

\* a mutant: the command is compared with 'DANMU_MSG' instead of searched for it
OnMessageExact(W, s, data, src) ==
  LET W1  == emit(W, s, Ev(s, <<"msg">>, <<data>>, src))
      cmd == IF data.cmd # <<>> THEN data.cmd ELSE data.msg.cmd
  IN  IF W1.crashed \/ cmd = <<>> THEN W1
      ELSE IF cmd = DANMU_MSG
        THEN emit(W1, s, Ev(s, DANMU_MSG, <<data>>, src))
        ELSE emit(W1, s, Ev(s, cmd, <<data>>, src))

OnMessage(W, s, data, src) ==
  LET W1  == emit(W, s, Ev(s, <<"msg">>, <<data>>, src))
      cmd == IF data.cmd # <<>> THEN data.cmd ELSE data.msg.cmd
  IN  IF W1.crashed \/ cmd = <<>> THEN W1
      ELSE IF includes(cmd, DANMU_MSG)
        THEN emit(W1, s, Ev(s, DANMU_MSG, <<data>>, src))
        ELSE emit(W1, s, Ev(s, cmd, <<data>>, src))

OnPack(W, s, pack, src) ==
  CASE pack.type = "welcome"   -> OnWelcome(W, s, src)
    [] pack.type = "heartbeat" -> OnHeartbeat(W, s, pack.data, src)
    [] pack.type = "message"   -> OnMessage(W, s, pack.data, src)
    [] OTHER -> W

\* packs.forEach(...): an exception thrown by a listener ends the loop
RECURSIVE forEach(_, _, _, _)
forEach(W, s, packs, src) ==
  IF packs = <<>> \/ W.crashed THEN W
  ELSE forEach(OnPack(W, s, Head(packs), src), s, Tail(packs), src)

----------------------------------------------------------------------------
(* The Supervisor (KLiveWS / KLiveTCP)                                     *)

\* connect(): a new Session from the stored parameters, and its liveness
\* timer; an exception of the constructor leaves connect() at once
connect(W) ==
  LET W1 == New(W, W.sup.params)
      s  == Len(W1.conn)
  IN  IF W1.crashed THEN W1
      ELSE [W1 EXCEPT !.sup.connection = s,
                      !.kt[s] = setTimeout(LivenessTimeout)]

\* the callback of the liveness timer
OnLivenessTimeout(W, s) == emit(close(W, s), s, Ev(s, <<"timeout">>, <<>>, 0))

\* close() of the Supervisor
Kclose(W) == close([W EXCEPT !.sup.closed = TRUE], W.sup.connection)

\* getOnline() of the Supervisor
KgetOnline(W) == getOnline(W, W.sup.connection)

\* the Supervisor after its constructor, or no Supervisor at all
KLive(params, errorListener) ==
  [on |-> TRUE, params |-> params, closed |-> FALSE, connection |-> 0,
   errorListener |-> errorListener]

\* no Supervisor: params is the room id the caller gave to new Base(roomid)
NoSupervisor(params, errorListener) ==
  [on |-> FALSE, params |-> params, closed |-> FALSE, connection |-> 0,
   errorListener |-> errorListener]


----------------------------------------------------------------------------
(* Actions: one per callback                                               *)

Sessions == 1..Len(conn)

Commit(W) ==
  /\ conn' = W.conn
  /\ sup' = W.sup
  /\ ktimeout' = W.kt
  /\ retry' = W.retry
  /\ idle' = W.idle
  /\ promise' = W.promise
  /\ crashed' = W.crashed
  /\ out' = W.out
  /\ UNCHANGED <<Base, framerVars>>

\* raw messages received so far, over all Sessions
RECURSIVE Sum(_, _)
Sum(f, n) == IF n = 0 THEN 0 ELSE f[n] + Sum(f, n - 1)
Received == Sum([s \in Sessions |-> conn[s].received], Len(conn))

\* ws 'open' / socket 'ready'
TransportOpen(s) ==
  /\ ~crashed
  /\ conn[s].readyState = "connecting"
  /\ Commit(emit([World EXCEPT !.conn[s].readyState = "open"], s,
                 Ev(s, <<"open">>, <<>>, 0)))

\* ws 'message' / a frame cut by splitBuffer: emit('message', buf)
TransportMessage(s, buf) ==
  /\ ~crashed
  /\ conn[s].readyState \in {"open", "closing"}
  /\ Received < MaxMsgs
  /\ Commit(emit([World EXCEPT !.conn[s].received = @ + 1], s,
                 Ev(s, <<"message">>, <<buf>>, conn[s].received + 1)))

\* the await of decoder(buffer) returns for raw message number k
DecodeDone(s, k) ==
  /\ ~crashed
  /\ k \in DOMAIN conn[s].decoding
  /\ Commit(forEach([World EXCEPT !.conn[s].decoding = Without(@, k),
                                  !.conn[s].dispatched = Append(@, k)], s,
                    decoder(conn[s].decoding[k]), k))

\* ws 'error' / socket 'error': emit('_error', cause)
TransportError(s) ==
  /\ ~crashed
  /\ conn[s].readyState \in {"connecting", "open", "closing", "aborting"}
  /\ Commit(emitError([World EXCEPT !.conn[s].readyState = "failed"], s, Cause))

\* ws 'close' / socket 'close': emit('close')
TransportClosed(s) ==
  /\ ~crashed
  /\ conn[s].readyState \in {"open", "closing", "aborting", "failed"}
  /\ Commit(emit([World EXCEPT !.conn[s].readyState = "closed", !.idle[s] = 0], s,
                 Ev(s, <<"close">>, <<>>, 0)))

\* the HeartbeatTimer fires: () => this.heartbeat()
HeartbeatExpire(s) ==
  /\ ~crashed
  /\ Due(conn[s].timeout)
  /\ Commit(heartbeat([World EXCEPT !.conn[s].timeout = Tail(@)], s))

\* the LivenessTimer fires
LivenessExpire(s) ==
  /\ ~crashed
  /\ sup.on
  /\ Expired(ktimeout[s])
  /\ Commit(OnLivenessTimeout([World EXCEPT !.kt[s] = NoTimer], s))

\* the retry timer fires: () => this.connect()
RetryExpire(s) ==
  /\ ~crashed
  /\ sup.on
  /\ Due(retry[s])
  /\ Len(conn) < MaxSessions
  /\ Commit(connect([World EXCEPT !.retry[s] = Tail(@)]))

\* the timers that are pending, as remaining times
Deadlines ==
  UNION {{conn[s].timeout[i] : i \in DOMAIN conn[s].timeout} : s \in Sessions}
    \cup {ktimeout[s][1] : s \in {x \in Sessions : Pending(ktimeout[x])}}
    \cup UNION {{retry[s][i] : i \in DOMAIN retry[s]} : s \in Sessions}

Elapse(t, d) == [i \in DOMAIN t |-> t[i] - d]

\* time passes until the next timer is due
Tick ==
  /\ ~crashed
  /\ Deadlines # {}
  /\ Min(Deadlines) > 0
  /\ LET d == Min(Deadlines) IN
       /\ conn' = [s \in Sessions |-> [conn[s] EXCEPT !.timeout = Elapse(@, d)]]
       /\ ktimeout' = [s \in Sessions |-> Elapse(ktimeout[s], d)]
       /\ retry' = [s \in Sessions |-> Elapse(retry[s], d)]
       /\ idle' = [s \in Sessions |->
                     IF conn[s].readyState = "closed" THEN idle[s]
                     ELSE Min({idle[s] + d, LivenessTimeout})]
  /\ out' = Quiet
  /\ UNCHANGED <<Base, sup, promise, crashed, framerVars>>

\* the caller: supervisor.close()
CallKclose ==
  /\ ~crashed
  /\ sup.on
  /\ Commit(Kclose(World))

\* the caller: supervisor.getOnline()
CallKgetOnline ==
  /\ ~crashed
  /\ sup.on
  /\ Len(promise) < MaxKCalls
  /\ Commit(KgetOnline(World))

\* the caller of a bare Session: session.close()
CallClose(s) ==
  /\ ~crashed
  /\ ~sup.on
  /\ Commit(close(World, s))

\* the caller of a bare Session: session.getOnline()
CallGetOnline(s) ==
  /\ ~crashed
  /\ ~sup.on
  /\ Len(promise) < MaxCalls
  /\ Commit(getOnline(World, s))

\* the caller of a bare Session: session.heartbeat()
CallHeartbeat(s) ==
  /\ ~crashed
  /\ ~sup.on
  /\ Commit(heartbeat(World, s))

\* the caller of a bare Session: session.send(bytes)
CallSend(s, data) ==
  /\ ~crashed
  /\ ~sup.on
  /\ Commit(send(World, s, data))

----------------------------------------------------------------------------
(* The raw messages the peer sends *)

\* payloads: an unrelated command, a tagged danmaku command, a command nested
\* under msg, a danmaku command nested under msg, and no command at all
Payloads ==
  {Payload(<<"SEND_GIFT">>, <<>>),
   Payload(<<"DANMU_MSG", ":4:0:2:2:2:0">>, <<"SEND_GIFT">>),
   Payload(<<>>, <<"SEND_GIFT">>),
   Payload(<<>>, <<"DANMU_MSG", ":4:0:2:2:2:0">>),
   Payload(<<>>, <<>>)}

Buffers ==
  {<<Welcome>>} \cup {<<HeartbeatReply(n)>> : n \in Counts}
    \cup {<<Welcome, HeartbeatReply(n)>> : n \in Counts}
    \cup {<<Message(Payload(<<"SEND_GIFT">>, <<>>))>>}

\* raw messages of message packets only
MsgBuffers ==
  {<<Message(d)>> : d \in Payloads}
    \cup {<<Message(Payload(<<"DANMU_MSG", ":4:0:2:2:2:0">>, <<>>)),
            Message(Payload(<<"SEND_GIFT">>, <<>>))>>}

\* the bytes a caller passes to send()
CallerBytes == {encoder("caller", <<>>)}

\* raw messages of the heartbeat loop: one raw message may hold two replies
HeartbeatBuffers ==
  {<<Welcome>>, <<HeartbeatReply(1)>>, <<HeartbeatReply(1), HeartbeatReply(2)>>}

\* raw messages whose command is the name of an event of the Session itself
CmdBuffers ==
  {<<Message(Payload(<<"close">>, <<>>))>>, <<Message(Payload(<<"SEND_GIFT">>, <<>>))>>}

KBuffers == {<<Welcome, HeartbeatReply(1)>>, <<HeartbeatReply(2)>>}

IdleFramer ==
  /\ stream = <<>>
  /\ buffer = <<>>
  /\ frames = <<>>
  /\ spinning = FALSE
  /\ input = <<>>

Empty(k) ==
  [conn |-> <<>>, sup |-> k, kt |-> <<>>, retry |-> <<>>, idle |-> <<>>,
   promise |-> <<>>, crashed |-> FALSE, out |-> Quiet]

Start(W) ==
  /\ conn = W.conn
  /\ sup = W.sup
  /\ ktimeout = W.kt
  /\ retry = W.retry
  /\ idle = W.idle
  /\ promise = W.promise
  /\ crashed = W.crashed
  /\ out = W.out

(* A Supervisor, as its constructor leaves it *)
Init ==
  /\ Base \in {"LiveWS", "LiveTCP"}
  /\ \E r \in RoomIds, l \in BOOLEAN : Start(connect(Empty(KLive(r, l))))
  /\ IdleFramer

Next ==
  \/ \E s \in Sessions : TransportOpen(s)
  \/ \E s \in Sessions, b \in KBuffers : TransportMessage(s, b)
  \/ \E s \in Sessions : \E k \in DOMAIN conn[s].decoding : DecodeDone(s, k)
  \/ \E s \in Sessions : TransportError(s)
  \/ \E s \in Sessions : TransportClosed(s)
  \/ \E s \in Sessions : HeartbeatExpire(s)
  \/ \E s \in Sessions : LivenessExpire(s)
  \/ \E s \in Sessions : RetryExpire(s)
  \/ Tick
  \/ CallKclose
  \/ CallKgetOnline

Spec == Init /\ [][Next]_vars

(* What the event loop and the transport guarantee: a due timer fires, time  *)
(* passes, an awaited decode returns, and a transport that was asked to      *)
(* close, or that failed, reports its close.                                 *)
Fairness ==
  /\ WF_vars(Tick)
  /\ \A s \in 1..MaxSessions :
       /\ WF_vars(s \in Sessions /\ HeartbeatExpire(s))
       /\ WF_vars(s \in Sessions /\ LivenessExpire(s))
       /\ WF_vars(s \in Sessions /\ RetryExpire(s))
       /\ WF_vars(s \in Sessions /\ \E k \in DOMAIN conn[s].decoding : DecodeDone(s, k))
       /\ WF_vars(s \in Sessions
                    /\ conn[s].readyState \in {"closing", "aborting", "failed"}
                    /\ TransportClosed(s))

FairSpec == Spec /\ Fairness


(* A Supervisor whose Sessions receive message packets *)
RelayNext ==
  \/ \E s \in Sessions : TransportOpen(s)
  \/ \E s \in Sessions, b \in CmdBuffers : TransportMessage(s, b)
  \/ \E s \in Sessions : \E k \in DOMAIN conn[s].decoding : DecodeDone(s, k)
  \/ \E s \in Sessions : TransportError(s)
  \/ \E s \in Sessions : TransportClosed(s)
  \/ \E s \in Sessions : LivenessExpire(s)
  \/ \E s \in Sessions : RetryExpire(s)
  \/ Tick
  \/ CallKclose

RelaySpec == Init /\ [][RelayNext]_vars

----------------------------------------------------------------------------
(* A bare Session (new LiveWS(roomid) / new LiveTCP(roomid)), no Supervisor *)

SessionInit ==
  /\ Base \in {"LiveWS", "LiveTCP"}
  /\ \E r \in RoomIds, l \in BOOLEAN : Start(New(Empty(NoSupervisor(r, l)), r))
  /\ IdleFramer

SessionNext ==
  \/ \E s \in Sessions : TransportOpen(s)
  \/ \E s \in Sessions, b \in Buffers : TransportMessage(s, b)
  \/ \E s \in Sessions : \E k \in DOMAIN conn[s].decoding : DecodeDone(s, k)
  \/ \E s \in Sessions : TransportError(s)
  \/ \E s \in Sessions : TransportClosed(s)
  \/ \E s \in Sessions : HeartbeatExpire(s)
  \/ Tick
  \/ \E s \in Sessions : CallClose(s)
  \/ \E s \in Sessions : CallGetOnline(s)

SessionSpec == SessionInit /\ [][SessionNext]_vars

(* A bare Session whose caller also calls heartbeat() and send(bytes) *)
CallerNext ==
  \/ SessionNext
  \/ \E s \in Sessions : CallHeartbeat(s)
  \/ \E s \in Sessions, d \in CallerBytes : CallSend(s, d)

CallerSpec == SessionInit /\ [][CallerNext]_vars

(* A bare Session that receives message packets *)
RoutingNext ==
  \/ \E s \in Sessions : TransportOpen(s)
  \/ \E s \in Sessions, b \in MsgBuffers : TransportMessage(s, b)
  \/ \E s \in Sessions : \E k \in DOMAIN conn[s].decoding : DecodeDone(s, k)
  \/ \E s \in Sessions : TransportError(s)
  \/ \E s \in Sessions : TransportClosed(s)
  \/ \E s \in Sessions : CallClose(s)

RoutingSpec == SessionInit /\ [][RoutingNext]_vars

(* A bare Session in its heartbeat loop *)
HeartbeatNext ==
  \/ \E s \in Sessions : TransportOpen(s)
  \/ \E s \in Sessions, b \in HeartbeatBuffers : TransportMessage(s, b)
  \/ \E s \in Sessions : \E k \in DOMAIN conn[s].decoding : DecodeDone(s, k)
  \/ \E s \in Sessions : TransportError(s)
  \/ \E s \in Sessions : TransportClosed(s)
  \/ \E s \in Sessions : HeartbeatExpire(s)
  \/ Tick
  \/ \E s \in Sessions : CallClose(s)

HeartbeatSpec == SessionInit /\ [][HeartbeatNext]_vars

----------------------------------------------------------------------------
(* Construction: new LiveWS(roomid) / new LiveTCP(roomid) or new            *)
(* KeepLiveWS(roomid) / new KeepLiveTCP(roomid) on any value, and the life  *)
(* of the transports that follows.                                          *)

RoomInputs ==
  RoomIds \cup {Number(3, 2), Infinity, NaN} \cup NotANumber

ConstructInit ==
  /\ Base \in {"LiveWS", "LiveTCP"}
  /\ \E r \in RoomInputs, l \in BOOLEAN :
       \/ Start(connect(Empty(KLive(r, l))))
       \/ Start(New(Empty(NoSupervisor(r, l)), r))
  /\ IdleFramer

ConstructNext ==
  \/ \E s \in Sessions : TransportOpen(s)
  \/ \E s \in Sessions : TransportError(s)
  \/ \E s \in Sessions : TransportClosed(s)
  \/ \E s \in Sessions : LivenessExpire(s)
  \/ \E s \in Sessions : RetryExpire(s)
  \/ Tick
  \/ CallKclose
  \/ \E s \in Sessions : CallClose(s)

ConstructSpec == ConstructInit /\ [][ConstructNext]_vars

----------------------------------------------------------------------------
(* The TCP framer: socket.on('data', ...) and LiveTCP.splitBuffer          *)

Bytes == {0, 255}

\* Buffer.prototype.readInt32BE(0): big-endian, two's complement
readInt32BE(buf) ==
  LET top == IF buf[1] >= 128 THEN buf[1] - 256 ELSE buf[1]
  IN  ((top * 256 + buf[2]) * 256 + buf[3]) * 256 + buf[4]

\* an index of Buffer.prototype.slice: negative counts from the end, then clamped
Clamp(i, len) ==
  IF i < 0 THEN (IF len + i < 0 THEN 0 ELSE len + i)
  ELSE IF i > len THEN len ELSE i

\* Buffer.prototype.slice(start, end)
slice(buf, start, end) ==
  LET a == Clamp(start, Len(buf))
      b == Clamp(end, Len(buf))
  IN  IF a >= b THEN <<>> ELSE SubSeq(buf, a + 1, b)

\* a mutant: the loop runs while buffer.length > 4
RECURSIVE splitBufferStrict(_, _)
splitBufferStrict(buf, fuel) ==
  IF Len(buf) > HeaderLen /\ readInt32BE(buf) <= Len(buf)
    THEN LET size == readInt32BE(buf)
             pack == slice(buf, 0, size)
             next == slice(buf, size, Len(buf))
         IN  IF fuel = 0 \/ next = buf
               THEN [buffer |-> buf, emitted |-> <<>>, spinning |-> TRUE]
               ELSE LET rest == splitBufferStrict(next, fuel - 1)
                    IN  [rest EXCEPT !.emitted = <<pack>> \o @]
    ELSE [buffer |-> buf, emitted |-> <<>>, spinning |-> FALSE]

\* LiveTCP.splitBuffer, on buffer buf: what is left, the raw messages emitted,
\* and whether the loop never ends: an iteration that leaves this.buffer as
\* it found it is repeated forever (it is also cut after `fuel` iterations)
RECURSIVE splitBuffer(_, _)
splitBuffer(buf, fuel) ==
  IF Len(buf) >= HeaderLen /\ readInt32BE(buf) <= Len(buf)
    THEN LET size == readInt32BE(buf)
             pack == slice(buf, 0, size)
             next == slice(buf, size, Len(buf))
         IN  IF fuel = 0 \/ next = buf
               THEN [buffer |-> buf, emitted |-> <<>>, spinning |-> TRUE]
               ELSE LET rest == splitBuffer(next, fuel - 1)
                    IN  [rest EXCEPT !.emitted = <<pack>> \o @]
    ELSE [buffer |-> buf, emitted |-> <<>>, spinning |-> FALSE]

\* socket.on('data', ...): the next n bytes of the stream arrive as one chunk
Data(n) ==
  /\ ~spinning
  /\ n \in 1..Len(stream)
  /\ LET r == splitBuffer(buffer \o SubSeq(stream, 1, n), MaxIter)
     IN  /\ buffer' = r.buffer
         /\ frames' = frames \o r.emitted
         /\ spinning' = r.spinning
  /\ stream' = SubSeq(stream, n + 1, Len(stream))
  /\ UNCHANGED <<input, sessionVars>>

\* the 4-byte big-endian length prefix of a frame of n bytes
Header(n) ==
  <<(n \div 16777216) % 256, (n \div 65536) % 256, (n \div 256) % 256, n % 256>>

RECURSIVE Seqs(_, _)
Seqs(S, n) ==
  IF n = 0 THEN {<<>>}
  ELSE LET shorter == Seqs(S, n - 1)
       IN  shorter \cup {Append(q, x) : q \in {y \in shorter : Len(y) = n - 1}, x \in S}

\* the well-formed frames: the prefix counts itself
Frames == {Header(HeaderLen + Len(body)) \o body : body \in Seqs(Bytes, MaxBody)}

RECURSIVE Concat(_)
Concat(fs) == IF fs = <<>> THEN <<>> ELSE Head(fs) \o Concat(Tail(fs))

FramerInit ==
  /\ Base = "LiveTCP"
  /\ Start(New(Empty(NoSupervisor(Number(1, 1), FALSE)), Number(1, 1)))
  /\ input \in Seqs(Frames, MaxFrames)
  /\ stream = Concat(input)
  /\ buffer = <<>>
  /\ frames = <<>>
  /\ spinning = FALSE

FramerNext == \E n \in 1..Len(stream) : Data(n)

FramerSpec == FramerInit /\ [][FramerNext]_vars

(* The framer on any bytes: the peer's stream is not made of well-formed    *)
(* frames; 0, 1 and 255 give the prefixes 0, 1 to 3 (here 1), -1 and -256.  *)
RawBytes == {0, 1, 255}

RawInit ==
  /\ Base = "LiveTCP"
  /\ Start(New(Empty(NoSupervisor(Number(1, 1), FALSE)), Number(1, 1)))
  /\ stream \in Seqs(RawBytes, MaxRaw)
  /\ input = <<stream>>
  /\ buffer = <<>>
  /\ frames = <<>>
  /\ spinning = FALSE

RawSpec == RawInit /\ [][FramerNext]_vars


----------------------------------------------------------------------------
(* Properties                                                              *)

IsSorted(q) == \A i, j \in DOMAIN q : i < j => q[i] < q[j]

\* C4: for raw messages m1, m2 of one Session with m1 received before m2,
\* every event produced from m1 is emitted before any event produced from m2.
\* The events of a raw message are emitted together, when its decode returns,
\* so this says the raw messages are dispatched in the order they arrived.
C4_DispatchInArrivalOrder ==
  \A s \in Sessions : IsSorted(conn[s].dispatched)

\* the promises of getOnline() still waiting on Session s
Waiting(s) == {p \in DOMAIN promise : promise[p].on = s /\ promise[p].value = <<>>}

\* the counts of the heartbeat events Session s emitted in the last callback
HeartbeatsOf(o, s) ==
  SelectSeq(o.emitted, LAMBDA e : e.from = s /\ e.name = <<"heartbeat">>)

\* C8: each getOnline() call sends one heartbeat request (one call of send
\* with an encoded heartbeat); the next heartbeat packet, of count n, resolves
\* every result still pending on the Session with n; a result is resolved
\* exactly once and no later heartbeat packet changes it.
C8_GetOnline ==
  [][ /\ Len(promise') = Len(promise) + 1 =>
           /\ Len(out'.sent) = 1
           /\ out'.sent[1].from = promise'[Len(promise')].on
           /\ out'.sent[1].data = encoder("heartbeat", <<>>)
           /\ promise'[Len(promise')].value = <<>>
      /\ \A s \in Sessions :
           HeartbeatsOf(out', s) # <<>> =>
             \A p \in Waiting(s) :
               /\ promise'[p].value = HeartbeatsOf(out', s)[1].args
               /\ promise'[p].resolved = 1
      /\ \A p \in DOMAIN promise :
           /\ promise[p].value # <<>> => promise'[p] = promise[p]
           /\ promise[p].value = <<>> => promise[p].resolved = 0
    ]_vars

\* two calls were pending together, one heartbeat packet resolved both with
\* its count, and a later heartbeat packet brought another count
C8_Witness ==
  /\ Len(promise) = 2
  /\ promise[1].value = <<1>>
  /\ promise[2].value = <<1>>
  /\ conn[1].online = 2

\* C9: the packets of one decode are dispatched in sequence order: a raw
\* message of a welcome packet then a heartbeat packet of count n makes the
\* Session live, emits `live` and then `heartbeat(n)`, calls send once with a
\* heartbeat request, and leaves online = n, which the heartbeat event already
\* carries; online changes only when a heartbeat packet is dispatched.
C9_WelcomeThenHeartbeat ==
  [][ \A s \in Sessions :
        /\ \A k \in DOMAIN conn[s].decoding, n \in Counts :
             (k \notin DOMAIN conn'[s].decoding
                /\ conn[s].decoding[k] = <<Welcome, HeartbeatReply(n)>>) =>
               /\ conn'[s].live
               /\ conn'[s].online = n
               /\ out'.emitted = <<Ev(s, <<"live">>, <<>>, k),
                                   Ev(s, <<"heartbeat">>, <<n>>, k)>>
               /\ Len(out'.sent) = 1
               /\ out'.sent[1].data = encoder("heartbeat", <<>>)
        /\ conn'[s].online # conn[s].online =>
             LET h == HeartbeatsOf(out', s)
             IN  h # <<>> /\ h[Len(h)].args = <<conn'[s].online>>
    ]_vars

\* a welcome and a heartbeat of count 2 were dispatched from one raw message
C9_Witness ==
  \E s \in Sessions :
    /\ Len(out.emitted) = 2
    /\ out.emitted[1].name = <<"live">>
    /\ out.emitted[2].name = <<"heartbeat">>
    /\ out.emitted[2].args = <<2>>
    /\ conn[s].online = 2
    /\ conn[s].live

IsPrefix(p, q) == Len(p) <= Len(q) /\ SubSeq(q, 1, Len(p)) = p

\* C10: however a stream of N well-formed frames is cut into chunks, the framer
\* emits the same N frames, in order and once each, as when the whole stream
\* is fed as one chunk.
C10_ChunkIndependence ==
  LET whole == splitBuffer(Concat(input), MaxIter)
  IN  /\ IsPrefix(frames, input)
      /\ ~spinning
      /\ Concat(frames) \o buffer \o stream = Concat(input)
      /\ stream = <<>> => /\ frames = whole.emitted
                          /\ frames = input
                          /\ buffer = whole.buffer

\* a cut fell inside the header of the second frame, after the first was emitted
C10_Witness ==
  /\ Len(input) = 2
  /\ Len(frames) = 1
  /\ buffer # <<>>
  /\ Len(buffer) < HeaderLen
  /\ stream # <<>>


----------------------------------------------------------------------------
(* Properties of the Supervisor                                            *)

\* C1: once close() has been called on the Supervisor, it creates no new
\* Session, whatever was scheduled before the call.
C1_NoSessionAfterClose ==
  [][sup.closed => Len(conn') = Len(conn)]_vars

\* the liveness timer of Session s has fired and its close is still awaited
TimedOut(s) == conn[s].readyState \notin {"connecting", "open", "closed"}
                 /\ ~Pending(ktimeout[s])

\* the window: while a Session is connecting or open, its liveness timer has
\* LivenessTimeout less the time since its creation or last heartbeat event left
C2_Window ==
  \A s \in Sessions :
    conn[s].readyState \in {"connecting", "open"} =>
      ktimeout[s] = <<LivenessTimeout - idle[s]>>

\* the expiry: the timer of a Session that is not closed fires when the whole
\* window has passed, calls close() on the Session and emits `timeout`
C2_Expiry ==
  \A s \in Sessions :
    (Expired(ktimeout[s]) /\ ~Pending(ktimeout'[s])
       /\ conn'[s].readyState # "closed") =>
      /\ idle[s] = LivenessTimeout
      /\ conn'[s].readyState \notin {"connecting", "open"}
      /\ \E i \in DOMAIN out'.kemitted :
           out'.kemitted[i] = Ev(s, <<"timeout">>, <<>>, 0)

\* the reconnect: a new Session with the same room id follows
C2_Reconnect ==
  \A s \in 1..(MaxSessions - 1) :
    (s \in Sessions /\ TimedOut(s) /\ ~sup.closed)
      ~> (sup.closed \/ (Len(conn) > s /\ conn[s + 1].roomid = conn[s].roomid))

\* C2: while the current Session stays without a heartbeat event, its
\* liveness timer runs from 45000, restarted in full by every heartbeat event;
\* when the window has passed the Supervisor calls close() on the Session and
\* `timeout` is emitted; and, the Supervisor not being closed, a new Session
\* with the same room id is then constructed.
C2_LivenessTimeout ==
  /\ []C2_Window
  /\ [][C2_Expiry]_vars
  /\ C2_Reconnect

\* a close event seen while the Supervisor is not closed schedules one retry,
\* nothing else does, and a Session is created only by a retry that is due,
\* one at a time, from the stored parameters
C3_OneRetryPerClose ==
  \A s \in Sessions :
    /\ (conn[s].readyState # "closed" /\ conn'[s].readyState = "closed"
          /\ ~sup.closed) => retry'[s] = <<RetryInterval>>
    /\ (Pending(retry'[s]) /\ ~Pending(retry[s])) =>
         (conn[s].readyState # "closed" /\ conn'[s].readyState = "closed")
    /\ Len(conn') # Len(conn) =>
         /\ Len(conn') = Len(conn) + 1
         /\ Expired(retry[Len(conn)]) /\ ~Pending(retry'[Len(conn)])
         /\ conn'[Len(conn')].roomid = sup.params
         /\ conn'[Len(conn')].roomid = conn[Len(conn)].roomid

\* once the current Session is closing or closed, for whatever reason, a new
\* Session follows
C3_Reconnect ==
  \A s \in 1..(MaxSessions - 1) :
    (s \in Sessions /\ s = sup.connection /\ ~sup.closed
       /\ conn[s].readyState \in {"closing", "aborting", "failed", "closed"})
      ~> (sup.closed \/ Len(conn) > s)

\* C3: while the Supervisor is not closed, every close of its current Session
\* (clean, caused by a transport error, or forced by the liveness timeout) is
\* followed, after the retry interval, by exactly one new Session built from
\* the stored parameters.
C3_ReconnectAfterClose ==
  /\ [][C3_OneRetryPerClose]_vars
  /\ C3_Reconnect

\* C5: once the Supervisor has replaced a Session, nothing that Session emits
\* later is re-emitted by the Supervisor or changes the Supervisor or its
\* timers.
C5_OnlyCurrentSessionRelayed ==
  [][\A i \in DOMAIN out'.emitted :
       out'.emitted[i].from < sup.connection =>
         /\ out'.kemitted = <<>>
         /\ sup' = sup
         /\ ktimeout' = ktimeout
         /\ retry' = retry]_vars

\* C6: once a Session has been closed (close() was called on it, or its
\* closed signal was observed), it has no HeartbeatTimer pending, so none
\* fires a heartbeat request.
C6_NoHeartbeatTimerAfterClose ==
  \A s \in Sessions :
    conn[s].readyState \in {"closing", "aborting", "failed", "closed"} =>
      ~Pending(conn[s].timeout)

\* C7: after the Supervisor has observed the close event of a Session, the
\* LivenessTimer it holds for that Session is not pending, so it never fires.
C7_NoLivenessTimerAfterClose ==
  \A s \in Sessions :
    conn[s].readyState = "closed" => ~Pending(ktimeout[s])

\* the command a payload carries: its own cmd, or otherwise the cmd under msg
CommandOf(data) == IF data.cmd # <<>> THEN data.cmd ELSE data.msg.cmd

\* the events the claim expects of the message packets packs, of raw message k
RECURSIVE Routed(_, _, _)
Routed(s, packs, k) ==
  IF packs = <<>> THEN <<>>
  ELSE LET data == Head(packs).data
           cmd  == CommandOf(data)
           name == IF includes(cmd, DANMU_MSG) THEN DANMU_MSG ELSE cmd
       IN  <<Ev(s, <<"msg">>, <<data>>, k)>>
             \o (IF cmd = <<>> THEN <<>> ELSE <<Ev(s, name, <<data>>, k)>>)
             \o Routed(s, Tail(packs), k)

\* C13: for every message packet the Session emits msg(payload) and then,
\* when the payload carries a command, exactly one event with the payload,
\* named DANMU_MSG when the command contains DANMU_MSG and named by the
\* command itself otherwise; nothing else is emitted for the packet.
C13_CommandRouting ==
  [][ \A s \in Sessions : \A k \in DOMAIN conn[s].decoding :
        LET packs == decoder(conn[s].decoding[k]) IN
        (k \notin DOMAIN conn'[s].decoding
           /\ \A i \in DOMAIN packs : packs[i].type = "message") =>
          out'.emitted = Routed(s, packs, k)
    ]_vars

\* a tagged danmaku command was routed to DANMU_MSG, and the unrelated
\* command after it under its own name
C13_Witness ==
  /\ Len(out.emitted) = 4
  /\ out.emitted[1].name = <<"msg">>
  /\ out.emitted[2].name = DANMU_MSG
  /\ out.emitted[2].args[1].cmd = <<"DANMU_MSG", ":4:0:2:2:2:0">>
  /\ out.emitted[3].name = <<"msg">>
  /\ out.emitted[4].name = <<"SEND_GIFT">>

\* C12: send(bytes) on a Session whose transport is not writable (not yet
\* open, closing, failed or closed) hands no bytes to the transport, for
\* every send of the last callback: those of the caller and those made by
\* heartbeat(), getOnline() and the welcome handler.
C12_SendNoOpUnlessWritable ==
  \A i \in DOMAIN out.sent :
    out.sent[i].state # "open" => ~out.sent[i].written

----------------------------------------------------------------------------
(* Properties of construction                                              *)

\* a transport was created: a Session exists
TransportCreated == conn # <<>>

\* C11: construction of a Session or a Supervisor succeeds for every positive
\* integer room id, and for a room id that is NaN, not a number, or a number
\* that is no integer (1.5, Infinity) it fails in the constructor, before any
\* transport is created.
C11_RoomIdValidated ==
  LET r == sup.params IN
  /\ (r.type = "number" /\ r.den = 1 /\ r.num > 0) => TransportCreated
  /\ (r.type # "number" \/ isNaN(r) \/ r.den # 1) =>
       (~TransportCreated /\ crashed)

\* C19: every result of getOnline() on a Supervisor is resolved in the end,
\* while heartbeat packets keep coming: whatever Session the call was made on
\* (one that has closed since, or one already closed at the call, during the
\* retry interval), the result still pending is resolved by the next
\* heartbeat event of the Supervisor's current Session, with its count.
C19_GetOnlineResolved ==
  [][ \A p \in DOMAIN promise :
        LET h == HeartbeatsOf(out', sup.connection) IN
        (promise[p].value = <<>> /\ h # <<>>) => promise'[p].value = h[1].args
    ]_vars

\* the callback of a transport error of a supervised Session ends without an
\* exception, the Supervisor having re-emitted `e` and `error` with the cause
C20_NoThrow ==
  \A s \in Sessions :
    (conn[s].readyState # "failed" /\ conn'[s].readyState = "failed") =>
      /\ ~crashed'
      /\ \E i \in DOMAIN out'.kemitted :
           out'.kemitted[i] = Ev(s, <<"error">>, <<Cause>>, 0)

\* the close of the failed Session is processed and the reconnect follows
C20_StillReconnects ==
  \A s \in 1..(MaxSessions - 1) :
    (s \in Sessions /\ conn[s].readyState = "failed" /\ ~sup.closed)
      ~> (sup.closed \/ (conn[s].readyState = "closed" /\ Len(conn) > s))

\* C20: a transport error on a supervised Session never leaves the Supervisor
\* failed: whatever listeners the caller registered on the Supervisor, none
\* for `error` included, relaying the Session's `error` event raises no
\* uncaught exception, the close of the Session is still processed and the
\* reconnect still follows.
C20_ErrorRelayIsSafe ==
  /\ [][C20_NoThrow]_vars
  /\ C20_StillReconnects

\* the Sessions whose transport is not closed yet
Alive == {s \in Sessions : conn[s].readyState # "closed"}

\* C14: at most one of the Sessions a Supervisor has created has a transport
\* that is not yet closed.
C14_AtMostOneSessionAlive == Cardinality(Alive) <= 1

\* C16: every call of the framer on a chunk returns, whatever the buffer
\* holds (a declared length of 0, of 1 to 3, or negative as a signed 32-bit
\* integer), and on return the buffer holds fewer than 4 bytes or fewer bytes
\* than its declared length.
C16_FramerTerminates ==
  /\ ~spinning
  /\ Len(buffer) < HeaderLen \/ Len(buffer) < readInt32BE(buffer)

\* C17: when the transport of a Session reports an error, the Session calls
\* close() on its transport and then emits exactly one `error` event carrying
\* the cause; a bare Session opens no transport afterwards: no Session is
\* added, and the failed one only goes on to closed.
C17_ErrorIsTerminal ==
  [][ /\ Len(conn') = Len(conn)
      /\ \A s \in Sessions :
           /\ (conn[s].readyState # "failed" /\ conn'[s].readyState = "failed") =>
                /\ out'.closed = <<[on |-> s, after |-> 1]>>
                /\ out'.emitted = <<Ev(s, <<"_error">>, <<Cause>>, 0),
                                    Ev(s, <<"error">>, <<Cause>>, 0)>>
           /\ conn[s].readyState \in {"failed", "closed"} =>
                /\ conn'[s].readyState \in {"failed", "closed"}
                /\ \A i \in DOMAIN out'.emitted :
                     out'.emitted[i].name # <<"error">>
    ]_vars

\* the transport of a bare Session that had received a raw message reported
\* an error, and the caller's `error` listener received it
C17_Witness ==
  /\ ~sup.on
  /\ ~crashed
  /\ conn[1].readyState = "failed"
  /\ Len(out.emitted) = 2
  /\ out.emitted[2] = Ev(1, <<"error">>, <<Cause>>, 0)
  /\ out.closed # <<>>
  /\ conn[1].received > 0

\* the sends of a callback that handed the join request of Session s to its
\* transport
JoinsOf(o, s) ==
  SelectSeq(o.sent, LAMBDA x : x.from = s /\ x.data[1] = "join" /\ x.written)

\* no bytes are handed to a transport that has not opened yet
C18_NothingBeforeOpen ==
  \A i \in DOMAIN out.sent :
    out.sent[i].written => out.sent[i].state \notin {"connecting", "aborting"}

\* the callback of the opened signal hands the join request, and nothing
\* before it; no other callback hands a join request
C18_JoinOnOpen ==
  \A s \in Sessions :
    IF conn[s].readyState = "connecting" /\ conn'[s].readyState = "open"
      THEN /\ Len(JoinsOf(out', s)) = 1
           /\ out'.sent[1] = JoinsOf(out', s)[1]
           /\ out'.sent[1].data[2].roomid = conn[s].roomid
      ELSE JoinsOf(out', s) = <<>>

\* C18: in every Session the join request is the first bytes handed to the
\* transport, and is handed once: it is handed by the callback of the opened
\* signal, by no other, and nothing (no heartbeat request of heartbeat(),
\* getOnline() or the HeartbeatTimer, no send of the caller) is handed to the
\* transport before it has opened.
C18_JoinFirst ==
  /\ []C18_NothingBeforeOpen
  /\ [][C18_JoinOnOpen]_vars

----------------------------------------------------------------------------
(* Properties of the HeartbeatTimer                                        *)

\* a Session is live: a welcome packet was processed and it has not closed
IsLive(s) == conn[s].live /\ conn[s].readyState # "closed"

\* C15 as written: in every state in which a Session is live, exactly one
\* HeartbeatTimer is pending for it
C15_ExactlyOneHeartbeatTimer ==
  \A s \in Sessions : IsLive(s) => Len(conn[s].timeout) = 1

\* in no state is more than one HeartbeatTimer pending for a Session
C15_AtMostOne == \A s \in Sessions : Len(conn[s].timeout) <= 1

\* a callback that processes a heartbeat packet leaves the one timer of the
\* last packet, at 30000; nothing else sets a timer; and a timer that fires
\* sends one heartbeat request
C15_Reschedule ==
  \A s \in Sessions :
    /\ HeartbeatsOf(out', s) # <<>> => conn'[s].timeout = <<HeartbeatIdle>>
    /\ (conn'[s].timeout # <<>> /\ conn[s].timeout = <<>>) =>
         HeartbeatsOf(out', s) # <<>>
    /\ (Due(conn[s].timeout) /\ conn'[s].timeout = <<>>
          /\ conn'[s].readyState = conn[s].readyState) =>
         /\ Len(out'.sent) = 1
         /\ out'.sent[1].from = s
         /\ out'.sent[1].data = encoder("heartbeat", <<>>)

\* C15 (amended): in no state is more than one HeartbeatTimer pending for a
\* Session; each processed heartbeat packet cancels the pending timer before
\* setting the next 30000 ms timer, only a heartbeat packet sets one, and its
\* expiry sends one heartbeat request.  A live Session has none pending
\* between its welcome packet and the first heartbeat packet, and between an
\* expiry and the next heartbeat packet.
C15_OneHeartbeatTimer ==
  /\ []C15_AtMostOne
  /\ [][C15_Reschedule]_vars

\* two heartbeat packets were processed in one callback, the second while the
\* timer of the first was pending, and one timer is left
C15_Witness ==
  \E s \in Sessions :
    /\ IsLive(s)
    /\ Len(HeartbeatsOf(out, s)) = 2
    /\ conn[s].timeout = <<HeartbeatIdle>>

================================================================================
